---- MODULE Spec2Model ----
(***************************************************************************)
(* Model of src/python/detect_ui.py: a single-shot script that loads one   *)
(* image, pools the boxes proposed by five detectors, removes overlapping  *)
(* boxes, filters them by UI plausibility, enriches every surviving box    *)
(* with a label, a colour fingerprint and OCR text, prints the list as     *)
(* JSON and writes an annotated copy of the image.                         *)
(*                                                                         *)
(* OpenCV's image operators (Canny, morphology, thresholds, inRange,       *)
(* findContours, HoughLinesP) are library calls: the model takes their     *)
(* results (contours with bounding rectangle, area and polygon size, and   *)
(* line segments) as the content of the decoded image, and translates all  *)
(* of the script's own logic over them.                                    *)
(*                                                                         *)
(* Python's true division of integers is compared against constants in     *)
(* the script (w/h < 10, w/h <= 15, inter/union > 0.5, w <= W*0.9).  For   *)
(* the integer ranges of pixel coordinates these float comparisons agree   *)
(* with the exact rational ones, which the model states by cross           *)
(* multiplication.                                                         *)
(***************************************************************************)
EXTENDS Integers, Sequences, FiniteSets, TLC

VARIABLES pc, argv, disk, image, all_boxes, final_boxes, labeled_boxes,
          ocr_raised, stdout, exit_code, saved

vars == <<pc, argv, disk, image, all_boxes, final_boxes, labeled_boxes,
          ocr_raised, stdout, exit_code, saved>>

(***************************************************************************)
(* Bounds of the model.                                                    *)
(***************************************************************************)
MaxShapes == 3
MaxLines == 2
MaxPathTokens == 3

(***************************************************************************)
(* Generic helpers.                                                        *)
(***************************************************************************)
Abs(n) == IF n < 0 THEN -n ELSE n

Min(a, b) == IF a < b THEN a ELSE b

Max(a, b) == IF a > b THEN a ELSE b

SeqUpTo(S, n) == UNION {[1..k -> S] : k \in 0..n}

\* None stands for Python's None where an image is expected.
None == [width |-> 0, height |-> 0]

(***************************************************************************)
(* Values.  A box is the dict {"x","y","width","height"} of the script.    *)
(* dtype records the Python type of its four numbers: cv2.boundingRect     *)
(* returns Python ints, whereas the rows of the array returned by          *)
(* cv2.HoughLinesP are numpy int32 scalars, and min, max, abs and          *)
(* subtraction of those are numpy int32 again.                             *)
(***************************************************************************)
Box(x, y, w, h, t) == [x |-> x, y |-> y, width |-> w, height |-> h, dtype |-> t]

Region(b) == <<b.x, b.y, b.width, b.height>>

Contour(x, y, w, h, area, nverts) ==
    [x |-> x, y |-> y, w |-> w, h |-> h, area |-> area, nverts |-> nverts]

Segment(x1, y1, x2, y2) == <<x1, y1, x2, y2>>

(***************************************************************************)
(* The findContours calls of the script, in the order it makes them.       *)
(***************************************************************************)
CannyPasses == <<"canny30", "canny50", "canny70">>

MorphPasses == <<"morph3", "morph5", "morph7">>

ColorPasses == <<"blue", "green", "red", "gray">>

Calls == {"canny30", "canny50", "canny70", "morph3", "morph5", "morph7",
          "adaptive", "blue", "green", "red", "gray"}

(***************************************************************************)
(* Method 1: detect_edges_multi_threshold.                                 *)
(***************************************************************************)
EdgeAccepts(c) ==
    /\ c.area > 500 /\ c.nverts >= 4
    /\ c.w > 30 /\ c.h > 30 /\ c.w < 10 * c.h /\ c.h < 10 * c.w

(***************************************************************************)
(* Method 2: detect_rectangular_regions (contour_area / bbox_area > 0.7).  *)
(***************************************************************************)
RectAccepts(c) ==
    /\ c.area > 1000
    /\ 10 * c.area > 7 * (c.w * c.h)

(***************************************************************************)
(* Method 3: detect_adaptive_threshold.                                    *)
(***************************************************************************)
AdaptiveAccepts(c) ==
    /\ c.area > 500
    /\ c.w > 20 /\ c.h > 20

(***************************************************************************)
(* Method 4: detect_color_regions.                                         *)
(***************************************************************************)
ColorAccepts(c) == c.area > 1000

\* The acceptance test of a contour detector.
Accepts(method, c) ==
    CASE method = "edges" -> EdgeAccepts(c)
      [] method = "rects" -> RectAccepts(c)
      [] method = "adaptive" -> AdaptiveAccepts(c)
      [] method = "colors" -> ColorAccepts(c)

RECURSIVE BoxesOf(_, _, _)
BoxesOf(cs, method, k) ==
    IF k > Len(cs) THEN <<>>
    ELSE (IF Accepts(method, cs[k])
          THEN <<Box(cs[k].x, cs[k].y, cs[k].w, cs[k].h, "int")>>
          ELSE <<>>) \o BoxesOf(cs, method, k + 1)

RECURSIVE OverPasses(_, _, _, _)
OverPasses(img, passes, method, p) ==
    IF p > Len(passes) THEN <<>>
    ELSE BoxesOf(img.contours[passes[p]], method, 1)
           \o OverPasses(img, passes, method, p + 1)

detect_edges_multi_threshold(img) == OverPasses(img, CannyPasses, "edges", 1)

detect_rectangular_regions(img) == OverPasses(img, MorphPasses, "rects", 1)

detect_adaptive_threshold(img) == BoxesOf(img.contours["adaptive"], "adaptive", 1)

detect_color_regions(img) == OverPasses(img, ColorPasses, "colors", 1)

(***************************************************************************)
(* Method 5: detect_lines_boxes.  A horizontal line is (min x, max x, y1), *)
(* a vertical line is (min y, max y, x1).                                  *)
(***************************************************************************)
IsHorizontal(s) == Abs(s[4] - s[2]) < 10

IsVertical(s) == ~IsHorizontal(s) /\ Abs(s[3] - s[1]) < 10

RECURSIVE horizontal_lines(_, _)
horizontal_lines(lines, k) ==
    IF k > Len(lines) THEN <<>>
    ELSE (IF IsHorizontal(lines[k])
          THEN <<<<Min(lines[k][1], lines[k][3]), Max(lines[k][1], lines[k][3]), lines[k][2]>>>>
          ELSE <<>>) \o horizontal_lines(lines, k + 1)

RECURSIVE vertical_lines(_, _)
vertical_lines(lines, k) ==
    IF k > Len(lines) THEN <<>>
    ELSE (IF IsVertical(lines[k])
          THEN <<<<Min(lines[k][2], lines[k][4]), Max(lines[k][2], lines[k][4]), lines[k][1]>>>>
          ELSE <<>>) \o vertical_lines(lines, k + 1)

CouldFormRectangle(h_line, v_line) ==
    Abs(h_line[3] - v_line[1]) < 20 \/ Abs(h_line[3] - v_line[2]) < 20

LineBox(h_line, v_line) ==
    Box(v_line[3], h_line[3], Abs(h_line[2] - h_line[1]), Abs(v_line[2] - v_line[1]), "int32")

PairBoxes(h_line, v_line) ==
    IF CouldFormRectangle(h_line, v_line)
         /\ LineBox(h_line, v_line).width > 30 /\ LineBox(h_line, v_line).height > 30
    THEN <<LineBox(h_line, v_line)>>
    ELSE <<>>

RECURSIVE OverVertical(_, _, _)
OverVertical(h_line, vs, j) ==
    IF j > Len(vs) THEN <<>>
    ELSE PairBoxes(h_line, vs[j]) \o OverVertical(h_line, vs, j + 1)

RECURSIVE OverHorizontal(_, _, _)
OverHorizontal(hs, vs, i) ==
    IF i > Len(hs) THEN <<>>
    ELSE OverVertical(hs[i], vs, 1) \o OverHorizontal(hs, vs, i + 1)

detect_lines_boxes(img) ==
    OverHorizontal(horizontal_lines(img.lines, 1), vertical_lines(img.lines, 1), 1)

(***************************************************************************)
(* remove_overlapping_boxes.  sorted(..., reverse=True) is a stable sort   *)
(* by descending area: boxes of equal area keep their order in the pool.   *)
(***************************************************************************)
area(b) == b.width * b.height

\* A sort that is not stable: a box goes in front of the boxes of its area.
RECURSIVE insert_sorted_unstable(_, _)
insert_sorted_unstable(b, s) ==
    IF s = <<>> THEN <<b>>
    ELSE IF area(Head(s)) > area(b)
         THEN <<Head(s)>> \o insert_sorted_unstable(b, Tail(s))
         ELSE <<b>> \o s

RECURSIVE insert_sorted(_, _)
insert_sorted(b, s) ==
    IF s = <<>> THEN <<b>>
    ELSE IF area(Head(s)) >= area(b)
         THEN <<Head(s)>> \o insert_sorted(b, Tail(s))
         ELSE <<b>> \o s

RECURSIVE sorted_desc(_, _, _)
sorted_desc(boxes, k, acc) ==
    IF k > Len(boxes) THEN acc
    ELSE sorted_desc(boxes, k + 1, insert_sorted(boxes[k], acc))

\* No sort: the greedy pass runs in pool order.
sorted_by_area_unsorted(boxes) == boxes

sorted_by_area(boxes) == sorted_desc(boxes, 1, <<>>)

\* An overlap measure whose union counts the intersection twice.
calculate_overlap_union_sum(box1, box2) ==
    LET left == Max(box1.x, box2.x)
        top == Max(box1.y, box2.y)
        right == Min(box1.x + box1.width, box2.x + box2.width)
        bottom == Min(box1.y + box1.height, box2.y + box2.height)
        intersection == (right - left) * (bottom - top)
        union == box1.width * box1.height + box2.width * box2.height
    IN IF left < right /\ top < bottom THEN <<intersection, union>> ELSE <<0, 1>>

(***************************************************************************)
(* calculate_overlap returns the fraction intersection / union as the pair *)
(* <<numerator, denominator>>, and 0 = <<0, 1>> for disjoint boxes.        *)
(***************************************************************************)
calculate_overlap(box1, box2) ==
    LET left == Max(box1.x, box2.x)
        top == Max(box1.y, box2.y)
        right == Min(box1.x + box1.width, box2.x + box2.width)
        bottom == Min(box1.y + box1.height, box2.y + box2.height)
        intersection == (right - left) * (bottom - top)
        union == box1.width * box1.height + box2.width * box2.height - intersection
    IN IF left < right /\ top < bottom THEN <<intersection, union>> ELSE <<0, 1>>

overlap_threshold == <<1, 2>>

FracGreater(r, t) == r[1] * t[2] > t[1] * r[2]

is_duplicate(box, filtered_boxes) ==
    \E k \in 1..Len(filtered_boxes) :
        FracGreater(calculate_overlap(box, filtered_boxes[k]), overlap_threshold)

RECURSIVE greedy_keep(_, _, _)
greedy_keep(boxes, k, filtered_boxes) ==
    IF k > Len(boxes) THEN filtered_boxes
    ELSE greedy_keep(boxes, k + 1,
                     IF is_duplicate(boxes[k], filtered_boxes)
                     THEN filtered_boxes
                     ELSE Append(filtered_boxes, boxes[k]))

remove_overlapping_boxes(boxes) ==
    IF boxes = <<>> THEN <<>>
    ELSE greedy_keep(sorted_by_area(boxes), 1, <<>>)

(***************************************************************************)
(* filter_ui_boxes.  image.shape[1] is the width, image.shape[0] the       *)
(* height; w <= W * 0.9 is 10 w <= 9 W, and w/h <= 15 is w <= 15 h.        *)
(***************************************************************************)
\* A filter whose minimum width is exclusive.
ui_plausible_strict(box, img) ==
    /\ box.width > 50 /\ box.height >= 30
    /\ 10 * box.width <= 9 * img.width /\ 10 * box.height <= 9 * img.height
    /\ box.width <= 15 * box.height /\ box.height <= 15 * box.width

ui_plausible(box, img) ==
    /\ box.width >= 50 /\ box.height >= 30
    /\ 10 * box.width <= 9 * img.width /\ 10 * box.height <= 9 * img.height
    /\ box.width <= 15 * box.height /\ box.height <= 15 * box.width

RECURSIVE filter_ui_boxes(_, _, _)
filter_ui_boxes(boxes, img, k) ==
    IF k > Len(boxes) THEN <<>>
    ELSE (IF ui_plausible(boxes[k], img) THEN <<boxes[k]>> ELSE <<>>)
           \o filter_ui_boxes(boxes, img, k + 1)

(***************************************************************************)
(* Enrichment.  The mean colour and the recognised text of a crop are      *)
(* functions of the image content; they are kept symbolic, named by the    *)
(* crop they are computed from.  i is the 0-based index of enumerate.      *)
(***************************************************************************)
get_color_fingerprint(box) == [avg_color_bgr |-> <<"mean", Region(box)>>]

extract_text_from_roi(box) == <<"text", Region(box)>>

label_of(i) == <<"UI", i + 1>>

labeled_box(box, i, raises) ==
    [x |-> box.x, y |-> box.y, width |-> box.width, height |-> box.height,
     dtype |-> box.dtype,
     label |-> label_of(i),
     color_fingerprint |-> get_color_fingerprint(box),
     text |-> IF raises THEN "" ELSE extract_text_from_roi(box)]

(***************************************************************************)
(* json.dumps serialises Python ints, floats, strings, lists and dicts; a  *)
(* numpy int32 makes it raise TypeError.                                   *)
(***************************************************************************)
json_serializable(boxes) == \A k \in 1..Len(boxes) : boxes[k].dtype = "int"

json_entry(lb) ==
    [x |-> lb.x, y |-> lb.y, width |-> lb.width, height |-> lb.height,
     label |-> lb.label, color_fingerprint |-> lb.color_fingerprint, text |-> lb.text]

json_dumps(boxes) == [k \in 1..Len(boxes) |-> json_entry(boxes[k])]

(***************************************************************************)
(* str.replace: every non-overlapping occurrence of old, left to right.    *)
(***************************************************************************)
StartsWith(s, old) == Len(s) >= Len(old) /\ SubSeq(s, 1, Len(old)) = old

RECURSIVE str_replace(_, _, _)
str_replace(s, old, new) ==
    IF s = <<>> THEN <<>>
    ELSE IF StartsWith(s, old)
         THEN new \o str_replace(SubSeq(s, Len(old) + 1, Len(s)), old, new)
         ELSE <<Head(s)>> \o str_replace(Tail(s), old, new)

DotPng == <<".", "p", "n", "g">>

AnnotatedPng == <<"_", "a", "n", "n", "o", "t", "a", "t", "e", "d", ".", "p", "n", "g">>

output_path(image_path) == str_replace(image_path, DotPng, AnnotatedPng)

(***************************************************************************)
(* The inputs of a run: the command line and the decoded content of the    *)
(* file it names (None when cv2.imread cannot read or decode it).  An      *)
(* image is its shape, the contours each findContours call finds in it and *)
(* the segments HoughLinesP finds in it.  boundingRect lies inside the     *)
(* image and has width and height of at least one pixel; a segment's end   *)
(* points are pixels of the image.                                         *)
(***************************************************************************)
Det(call, contour) == [call |-> call, contour |-> contour]

RECURSIVE ContoursOf(_, _, _)
ContoursOf(dets, call, k) ==
    IF k > Len(dets) THEN <<>>
    ELSE (IF dets[k].call = call THEN <<dets[k].contour>> ELSE <<>>)
           \o ContoursOf(dets, call, k + 1)

MkImage(size, dets, lines) ==
    [width |-> size[1], height |-> size[2],
     contours |-> [c \in Calls |-> ContoursOf(dets, c, 1)],
     lines |-> lines]

RectContour(x, y, w, h) == Contour(x, y, w, h, (w - 1) * (h - 1), 4)

SizeScreen == <<640, 480>>

SizeTall == <<100, 1000>>

\* Overlapping boxes: IoU(A,B) = 0.81, IoU(A,A2) = 0.82 with equal areas,
\* IoU(A,E) = IoU(A,F) = 0.5 exactly, E and F of equal area.
OverlapDets ==
    {Det("adaptive", RectContour(r[1], r[2], r[3], r[4])) :
        r \in {<<0, 0, 100, 100>>, <<10, 10, 90, 90>>, <<10, 0, 100, 100>>,
               <<0, 0, 100, 50>>, <<0, 0, 50, 100>>}}

\* Boxes on both sides of every threshold of the plausibility filter.
ScreenSizeDets ==
    {Det("gray", RectContour(r[1], r[2], r[3], r[4])) :
        r \in {<<0, 0, 50, 30>>, <<100, 0, 49, 30>>, <<200, 0, 50, 29>>,
               <<0, 40, 576, 40>>, <<0, 90, 577, 40>>,
               <<0, 140, 450, 30>>, <<0, 180, 451, 30>>,
               <<580, 0, 50, 432>>, <<500, 0, 50, 433>>}}

TallSizeDets ==
    {Det("gray", RectContour(r[1], r[2], r[3], r[4])) :
        r \in {<<0, 0, 50, 750>>, <<50, 0, 50, 751>>}}

\* Contours on both sides of the detectors' own acceptance tests.
DetectorDets ==
    {Det("canny30", Contour(0, 0, 100, 100, 9801, 4)),
     Det("canny50", Contour(0, 0, 100, 100, 9801, 3)),
     Det("canny70", Contour(0, 0, 310, 31, 9000, 4)),
     Det("morph3", Contour(200, 0, 100, 100, 9801, 4)),
     Det("morph5", Contour(200, 0, 100, 100, 7000, 4)),
     Det("adaptive", Contour(0, 200, 21, 100, 1980, 4)),
     Det("adaptive", Contour(0, 200, 20, 100, 1881, 4)),
     Det("blue", Contour(200, 200, 100, 100, 9801, 4)),
     Det("red", Contour(200, 200, 100, 100, 1000, 4))}

\* Segments: one horizontal, verticals at and away from its end points,
\* and a horizontal too short to give a box.
LineSegs ==
    {Segment(0, 50, 100, 50), Segment(0, 50, 30, 50),
     Segment(0, 50, 0, 150), Segment(500, 50, 500, 150), Segment(600, 50, 600, 150),
     Segment(0, 200, 0, 300), Segment(0, 70, 0, 170)}

LineDets == {Det("gray", RectContour(0, 50, 100, 100))}

OverlapImages == {MkImage(SizeScreen, d, <<>>) : d \in SeqUpTo(OverlapDets, MaxShapes)}

SizeImages ==
    {MkImage(SizeScreen, d, <<>>) : d \in SeqUpTo(ScreenSizeDets, MaxShapes)}
      \cup {MkImage(SizeTall, d, <<>>) : d \in SeqUpTo(TallSizeDets, MaxShapes)}

DetectorImages == {MkImage(SizeScreen, d, <<>>) : d \in SeqUpTo(DetectorDets, MaxShapes)}

LineImages ==
    {MkImage(SizeScreen, d, l) : d \in SeqUpTo(LineDets, 1), l \in SeqUpTo(LineSegs, MaxLines)}

Images == OverlapImages \cup SizeImages \cup DetectorImages \cup LineImages

APng == <<"a">> \o DotPng

Argvs == {<<>>, <<APng>>}

\* Paths built from a name, a directory separator and two extensions.
PathTokens == {<<"a">>, <<"/">>, DotPng, <<".", "j", "p", "g">>}

RECURSIVE Concat(_)
Concat(ts) == IF ts = <<>> THEN <<>> ELSE Head(ts) \o Concat(Tail(ts))

Paths == {Concat(ts) : ts \in SeqUpTo(PathTokens, MaxPathTokens) \ {<<>>}}

PathArgvs == {<<>>} \cup {<<p>> : p \in Paths}

PathImages ==
    {MkImage(SizeScreen, d, l) :
        d \in SeqUpTo(LineDets, 1),
        l \in {<<>>, <<Segment(0, 50, 100, 50), Segment(500, 50, 500, 150)>>}}

(***************************************************************************)
(* The script, statement by statement.  exit_code is empty while the       *)
(* process runs and holds its exit status once it has ended.               *)
(***************************************************************************)
InitWith(args, images) ==
    /\ pc = "start"
    /\ argv \in args
    /\ disk \in (IF argv = <<>> THEN {None} ELSE images \cup {None})
    /\ image = None
    /\ all_boxes = <<>>
    /\ final_boxes = <<>>
    /\ labeled_boxes = <<>>
    /\ ocr_raised = {}
    /\ stdout = <<>>
    /\ exit_code = <<>>
    /\ saved = <<>>

Init == InitWith(Argvs, Images)

InitPath == InitWith(PathArgvs, PathImages)

\* len(sys.argv) < 2: print [] and exit 0.
CheckArgs ==
    /\ pc = "start"
    /\ \/ /\ argv = <<>>
          /\ stdout' = Append(stdout, <<>>)
          /\ exit_code' = <<0>>
          /\ pc' = "exited"
       \/ /\ argv # <<>>
          /\ pc' = "load"
          /\ UNCHANGED <<stdout, exit_code>>
    /\ UNCHANGED <<argv, disk, image, all_boxes, final_boxes, labeled_boxes, ocr_raised, saved>>

\* A load step that exits with status 0 on an undecodable image.
LoadImage_exit0 ==
    /\ pc = "load"
    /\ \/ /\ disk = None
          /\ stdout' = Append(stdout, <<>>)
          /\ exit_code' = <<0>>
          /\ pc' = "exited"
          /\ UNCHANGED image
       \/ /\ disk # None
          /\ image' = disk
          /\ pc' = "edges"
          /\ UNCHANGED <<stdout, exit_code>>
    /\ UNCHANGED <<argv, disk, all_boxes, final_boxes, labeled_boxes, ocr_raised, saved>>

\* image = cv2.imread(image_path); None: print [] and exit 1.
LoadImage ==
    /\ pc = "load"
    /\ \/ /\ disk = None
          /\ stdout' = Append(stdout, <<>>)
          /\ exit_code' = <<1>>
          /\ pc' = "exited"
          /\ UNCHANGED image
       \/ /\ disk # None
          /\ image' = disk
          /\ pc' = "edges"
          /\ UNCHANGED <<stdout, exit_code>>
    /\ UNCHANGED <<argv, disk, all_boxes, final_boxes, labeled_boxes, ocr_raised, saved>>

Extend(at, boxes, next) ==
    /\ pc = at
    /\ all_boxes' = all_boxes \o boxes
    /\ pc' = next
    /\ UNCHANGED <<argv, disk, image, final_boxes, labeled_boxes, ocr_raised,
                   stdout, exit_code, saved>>

DetectEdges == Extend("edges", detect_edges_multi_threshold(image), "rects")

DetectRects == Extend("rects", detect_rectangular_regions(image), "adaptive")

DetectAdaptive == Extend("adaptive", detect_adaptive_threshold(image), "colors")

DetectColors == Extend("colors", detect_color_regions(image), "lines")

DetectLines == Extend("lines", detect_lines_boxes(image), "dedup")

\* final_boxes = remove_overlapping_boxes(all_boxes)
Deduplicate ==
    /\ pc = "dedup"
    /\ final_boxes' = remove_overlapping_boxes(all_boxes)
    /\ pc' = "filter"
    /\ UNCHANGED <<argv, disk, image, all_boxes, labeled_boxes, ocr_raised,
                   stdout, exit_code, saved>>

\* final_boxes = filter_ui_boxes(final_boxes)
Filter ==
    /\ pc = "filter"
    /\ final_boxes' = filter_ui_boxes(final_boxes, image, 1)
    /\ pc' = "enrich"
    /\ UNCHANGED <<argv, disk, image, all_boxes, labeled_boxes, ocr_raised,
                   stdout, exit_code, saved>>

\* One iteration of the enrichment loop; the OCR call returns or raises.
Enrich ==
    /\ pc = "enrich"
    /\ Len(labeled_boxes) < Len(final_boxes)
    /\ LET i == Len(labeled_boxes)
           box == final_boxes[i + 1]
       IN \/ /\ labeled_boxes' = Append(labeled_boxes, labeled_box(box, i, FALSE))
             /\ UNCHANGED ocr_raised
          \/ /\ labeled_boxes' = Append(labeled_boxes, labeled_box(box, i, TRUE))
             /\ ocr_raised' = ocr_raised \cup {i + 1}
    /\ UNCHANGED <<pc, argv, disk, image, all_boxes, final_boxes, stdout, exit_code, saved>>

\* print(json.dumps(labeled_boxes)); an uncaught TypeError ends the run.
PrintJson ==
    /\ pc = "enrich"
    /\ Len(labeled_boxes) = Len(final_boxes)
    /\ \/ /\ json_serializable(labeled_boxes)
          /\ stdout' = Append(stdout, json_dumps(labeled_boxes))
          /\ pc' = "annotate"
          /\ UNCHANGED exit_code
       \/ /\ ~json_serializable(labeled_boxes)
          /\ exit_code' = <<1>>
          /\ pc' = "crashed"
          /\ UNCHANGED stdout
    /\ UNCHANGED <<argv, disk, image, all_boxes, final_boxes, labeled_boxes, ocr_raised, saved>>

\* Draw the boxes and cv2.imwrite(output_path, image); the script ends.
Annotate ==
    /\ pc = "annotate"
    /\ saved' = Append(saved, output_path(argv[1]))
    /\ exit_code' = <<0>>
    /\ pc' = "done"
    /\ UNCHANGED <<argv, disk, image, all_boxes, final_boxes, labeled_boxes, ocr_raised, stdout>>

Next ==
    \/ CheckArgs
    \/ LoadImage
    \/ DetectEdges
    \/ DetectRects
    \/ DetectAdaptive
    \/ DetectColors
    \/ DetectLines
    \/ Deduplicate
    \/ Filter
    \/ Enrich
    \/ PrintJson
    \/ Annotate

Spec == Init /\ [][Next]_vars

SpecPath == InitPath /\ [][Next]_vars

TypeOK == pc \in {"start", "load", "exited", "edges", "rects", "adaptive", "colors",
                  "lines", "dedup", "filter", "enrich", "annotate", "crashed", "done"}

(***************************************************************************)
(* Properties.  The geometry they are stated with is defined here on its   *)
(* own, apart from the operators that model the script.                    *)
(***************************************************************************)
RegionsOf(boxes) == [k \in 1..Len(boxes) |-> Region(boxes[k])]

OverlapLen(a1, a2, b1, b2) == Max(0, Min(a2, b2) - Max(a1, b1))

InterArea(p, q) ==
    OverlapLen(p.x, p.x + p.width, q.x, q.x + q.width)
      * OverlapLen(p.y, p.y + p.height, q.y, q.y + q.height)

UnionArea(p, q) == p.width * p.height + q.width * q.height - InterArea(p, q)

IoUAtMostHalf(p, q) == 2 * InterArea(p, q) <= UnionArea(p, q)

AfterFilter == pc \in {"enrich", "annotate", "crashed", "done"}

RunEnded == pc \in {"crashed", "done"}

\* C1: any two distinct entries of the final list (deduplicated, then
\* filtered) have intersection-over-union <= 0.5, and the script's overlap
\* measure is intersection area over union area, 0 for disjoint boxes.
C1_PairwiseIoU ==
    /\ AfterFilter =>
         \A i, j \in 1..Len(final_boxes) :
             i # j => IoUAtMostHalf(final_boxes[i], final_boxes[j])
    /\ \A i, j \in 1..Len(all_boxes) :
         LET r == calculate_overlap(all_boxes[i], all_boxes[j])
         IN /\ r[2] > 0
            /\ r[1] * UnionArea(all_boxes[i], all_boxes[j])
                 = InterArea(all_boxes[i], all_boxes[j]) * r[2]

C1_Witness ==
    /\ pc = "done"
    /\ Len(all_boxes) = 3
    /\ Len(final_boxes) = 2
    /\ 2 * InterArea(final_boxes[1], final_boxes[2]) = UnionArea(final_boxes[1], final_boxes[2])

\* Position of pool entry i in the stable descending-area order.
Rank(boxes, i) ==
    1 + Cardinality({j \in 1..Len(boxes) :
                        \/ area(boxes[j]) > area(boxes[i])
                        \/ area(boxes[j]) = area(boxes[i]) /\ j < i})

StableSorted(boxes) ==
    [r \in 1..Len(boxes) |-> boxes[CHOOSE i \in 1..Len(boxes) : Rank(boxes, i) = r]]

\* The indices kept by the greedy pass over s: i is kept iff its IoU with
\* every kept index before it is <= 0.5.
KeptSet(s) ==
    CHOOSE K \in SUBSET (1..Len(s)) :
        \A i \in 1..Len(s) :
            (i \in K) <=> (\A j \in K : j < i => IoUAtMostHalf(s[i], s[j]))

SubseqAt(s, K) ==
    [r \in 1..Cardinality(K) |-> s[CHOOSE i \in K : Cardinality({j \in K : j <= i}) = r]]

RegionA == <<0, 0, 100, 100>>

RegionB == <<10, 10, 90, 90>>

\* C2: remove_overlapping_boxes returns the greedy largest-first pass over
\* the stable descending-area order of the pool; its output is in
\* non-increasing area order, every discarded candidate overlaps a kept
\* region at least as large by IoU > 0.5, and of the pool A, B only A stays.
C2_GreedyLargestFirst ==
    pc = "filter" =>
        LET s == StableSorted(all_boxes)
            K == KeptSet(s)
        IN /\ final_boxes = SubseqAt(s, K)
           /\ \A i \in 1..(Len(final_boxes) - 1) :
                  area(final_boxes[i]) >= area(final_boxes[i + 1])
           /\ \A i \in (1..Len(s)) \ K :
                  \E k \in 1..Len(final_boxes) :
                      /\ ~IoUAtMostHalf(s[i], final_boxes[k])
                      /\ area(final_boxes[k]) >= area(s[i])
           /\ RegionsOf(all_boxes) \in {<<RegionA, RegionB>>, <<RegionB, RegionA>>}
                  => RegionsOf(final_boxes) = <<RegionA>>

C2_Witness ==
    /\ pc = "filter"
    /\ RegionsOf(all_boxes) = <<<<0, 0, 100, 50>>, <<10, 0, 100, 100>>, RegionA>>
    /\ RegionsOf(final_boxes) = <<<<10, 0, 100, 100>>, <<0, 0, 100, 50>>>>

Plausible(b) ==
    /\ b.width >= 50 /\ b.height >= 30
    /\ 10 * b.width <= 9 * image.width /\ 10 * b.height <= 9 * image.height
    /\ b.width <= 15 * b.height /\ b.height <= 15 * b.width

\* C3: filter_ui_boxes returns, in input order, exactly the regions of its
\* input with width >= 50, height >= 30, width <= 0.9 W, height <= 0.9 H,
\* width/height <= 15 and height/width <= 15.
C3_FilterExact ==
    [][pc = "filter" => final_boxes' = SelectSeq(final_boxes, Plausible)]_vars

C3_Witness ==
    /\ pc = "enrich"
    /\ RegionsOf(all_boxes) = <<<<0, 0, 50, 30>>, <<0, 90, 577, 40>>, <<0, 40, 576, 40>>>>
    /\ RegionsOf(final_boxes) = <<<<0, 40, 576, 40>>, <<0, 0, 50, 30>>>>

\* C4: a run that reaches enrichment with k surviving regions emits a list
\* of k entries, entry i labelled UI<i> and carrying the i-th region.
C4_Claim ==
    RunEnded =>
        /\ Len(stdout) = 1
        /\ Len(stdout[1]) = Len(final_boxes)
        /\ \A i \in 1..Len(final_boxes) :
               /\ stdout[1][i].label = <<"UI", i>>
               /\ <<stdout[1][i].x, stdout[1][i].y, stdout[1][i].width, stdout[1][i].height>>
                    = Region(final_boxes[i])

Unusable == argv = <<>> \/ disk = None

\* C5: on unusable input the run prints exactly one document, the empty
\* list, detects, enriches and writes nothing, and stops: with status 0
\* when the argument is missing, with status 1 when the image is undecodable.
C5_UnusableInput ==
    Unusable =>
        /\ pc \in {"start", "load", "exited"}
        /\ image = None /\ all_boxes = <<>> /\ final_boxes = <<>>
        /\ labeled_boxes = <<>> /\ saved = <<>>
        /\ pc = "exited" =>
              /\ stdout = << <<>> >>
              /\ argv = <<>> => exit_code = <<0>>
              /\ argv # <<>> => exit_code # <<0>> /\ exit_code # <<>>
              /\ ~ENABLED Next
        /\ pc # "exited" => stdout = <<>> /\ exit_code = <<>>

C5_Witness ==
    /\ pc = "exited"
    /\ argv # <<>>
    /\ disk = None
    /\ exit_code = <<1>>

\* The entry the run without OCR failures emits for the i-th region.
CleanEntry(i) == json_entry(labeled_box(final_boxes[i], i - 1, FALSE))

\* C6: whichever regions' text extraction fails, the run completes and
\* emits one entry per surviving region in order; a failing region has
\* text "" and otherwise every field is as in the run without failures.
C6_Claim ==
    RunEnded /\ ocr_raised # {} =>
        /\ pc = "done"
        /\ stdout = << [i \in 1..Len(final_boxes) |->
                          IF i \in ocr_raised
                          THEN [CleanEntry(i) EXCEPT !.text = ""]
                          ELSE CleanEntry(i)] >>

\* C7: every region of the pool lies inside the image and has positive
\* width and height.
C7_Claim ==
    \A k \in 1..Len(all_boxes) :
        /\ all_boxes[k].x >= 0 /\ all_boxes[k].y >= 0
        /\ all_boxes[k].width > 0 /\ all_boxes[k].height > 0
        /\ all_boxes[k].x + all_boxes[k].width <= image.width
        /\ all_boxes[k].y + all_boxes[k].height <= image.height

Perms(s) ==
    {[k \in 1..Len(s) |-> s[f[k]]] :
        f \in {g \in [1..Len(s) -> 1..Len(s)] : \A a, b \in 1..Len(s) : a # b => g[a] # g[b]}}

RegionSet(boxes) == {Region(boxes[k]) : k \in 1..Len(boxes)}

\* C8 as claimed: every permutation of the pool is deduplicated to the same
\* set of regions.
C8_Claim ==
    pc = "filter" =>
        \A p \in Perms(all_boxes) :
            RegionSet(remove_overlapping_boxes(p)) = RegionSet(final_boxes)

NoAreaTies(boxes) ==
    \A i, j \in 1..Len(boxes) :
        area(boxes[i]) = area(boxes[j]) => Region(boxes[i]) = Region(boxes[j])

\* C8 amended: when no two different regions of the pool have the same
\* area, every permutation of the pool is deduplicated to the same list of
\* regions.
C8_Amended ==
    pc = "filter" /\ NoAreaTies(all_boxes) =>
        \A p \in Perms(all_boxes) :
            RegionsOf(remove_overlapping_boxes(p)) = RegionsOf(final_boxes)

C8_Witness ==
    /\ pc = "filter"
    /\ RegionsOf(all_boxes) = <<<<0, 0, 100, 50>>, RegionB, RegionA>>
    /\ RegionsOf(final_boxes) = <<RegionA, <<0, 0, 100, 50>>>>

EndsWith(s, suffix) ==
    Len(s) >= Len(suffix) /\ SubSeq(s, Len(s) - Len(suffix) + 1, Len(s)) = suffix

SuffixReplaced(path) ==
    IF EndsWith(path, DotPng)
    THEN SubSeq(path, 1, Len(path) - Len(DotPng)) \o AnnotatedPng
    ELSE path

\* The directory part of a path: everything up to its last "/".
DirOf(path) ==
    LET slashes == {k \in 1..Len(path) : path[k] = "/"}
    IN IF slashes = {} THEN <<>>
       ELSE SubSeq(path, 1, CHOOSE k \in slashes : \A m \in slashes : m <= k)

\* C9: the annotated image is written to the input path with its .png
\* suffix replaced by _annotated.png: same directory, never the input path.
C9_Claim ==
    pc = "done" =>
        /\ saved = <<SuffixReplaced(argv[1])>>
        /\ DirOf(saved[1]) = DirOf(argv[1])
        /\ saved[1] # argv[1]

HorizontalSegs == {image.lines[k] : k \in {m \in 1..Len(image.lines) : IsHorizontal(image.lines[m])}}

VerticalSegs == {image.lines[k] : k \in {m \in 1..Len(image.lines) : IsVertical(image.lines[m])}}

EndPoints(s) == {<<s[1], s[2]>>, <<s[3], s[4]>>}

FormsCorner(hs, vs) ==
    \E e \in EndPoints(hs), f \in EndPoints(vs) :
        Abs(e[1] - f[1]) <= 20 /\ Abs(e[2] - f[2]) <= 20

\* C10: every rectangle detect_lines_boxes adds to the pool comes from a
\* horizontal and a vertical segment with end points within 20px of each
\* other in x and in y, and is more than 30px wide and high.
C10_Claim ==
    [][pc = "lines" =>
         \A k \in (Len(all_boxes) + 1)..Len(all_boxes') :
             /\ all_boxes'[k].width > 30 /\ all_boxes'[k].height > 30
             /\ \E hs \in HorizontalSegs, vs \in VerticalSegs :
                    /\ FormsCorner(hs, vs)
                    /\ all_boxes'[k].x = vs[1] /\ all_boxes'[k].y = hs[2]
                    /\ all_boxes'[k].width = Abs(hs[3] - hs[1])
                    /\ all_boxes'[k].height = Abs(vs[4] - vs[2])]_vars

====
